---- MODULE Spec2Model ----
(***************************************************************************)
(* A model of the two gallery maintenance scripts of the repository:       *)
(*   update_gallery_html.py  rewrites <img> tags to point at thumbnails,   *)
(*   create_thumbnails.py    writes a JPEG thumbnail for every image.      *)
(* Text (HTML, paths, file names) is a sequence of one-character strings,  *)
(* so the regular expression and the string methods are modelled on the    *)
(* characters they read.                                                   *)
(***************************************************************************)
EXTENDS Integers, Sequences, FiniteSets, TLC

VARIABLES
    \* ---- update_gallery_html.py
    gallery_files,  \* the configured list main() iterates over
    fs,             \* file name -> [exists, content]
    run,            \* how many times the script has been started
    idx,            \* position of main()'s for loop in gallery_files
    updated,        \* main()'s counter
    hpc,            \* "loop" | "done" | "raised" (uncaught exception)
    hlog,           \* lines printed by the current run
    rets,           \* file -> result of update_gallery_html in this run
    writes,         \* file -> number of times opened for writing in this run
    fsStart,        \* fs when the current run started
    \* ---- create_thumbnails.py
    entry,          \* "main" | "process_directory": what was called
    IMAGE_DIRS,     \* the configured list of directories
    dirs,           \* directory -> [exists, files: name -> file]
    thumbs,         \* directory -> (thumbnail path -> [img, from])
    didx,           \* position of main()'s for loop in IMAGE_DIRS
    total_dirs,     \* main()'s counter
    todo,           \* names iterdir() has not yet yielded in the current directory
    processed,      \* process_directory()'s counter
    gpc,            \* "main" | "call" | "dir" | "returned" | "done" | "idle"
    glog,           \* lines printed
    attempts        \* pairs <<directory, name>> create_thumbnail was called on

hvars == <<gallery_files, fs, run, idx, updated, hpc, hlog, rets, writes, fsStart>>
gvars == <<entry, IMAGE_DIRS, dirs, thumbs, didx, total_dirs, todo, processed, gpc, glog, attempts>>
vars == <<hvars, gvars>>

(***************************************************************************)
(* Bounds of the model.                                                    *)
(***************************************************************************)
\* Pieces (tags, text) concatenated into one HTML document.
MaxPieces == 2
\* Configured HTML files in a run over several files (the script lists 7).
NumFiles == 3
\* Times the rewriter script is started on the same files.
MaxRuns == 2
\* Configured image directories (the script lists 8).
NumDirs == 2
\* Entries of one image directory.
MaxEntries == 2

(***************************************************************************)
(* Strings: the str methods and operators the scripts use.                 *)
(***************************************************************************)
\* lit occurs in s at position p
IsAt(s, p, lit) ==
    /\ p >= 1
    /\ p + Len(lit) - 1 <= Len(s)
    /\ \A i \in 1..Len(lit) : s[p + i - 1] = lit[i]

\* Python: sub in s
Contains(s, sub) == \E p \in 1..(Len(s) - Len(sub) + 1) : IsAt(s, p, sub)

EndsWith(s, suf) == Len(suf) <= Len(s) /\ IsAt(s, Len(s) - Len(suf) + 1, suf)

\* index of the first c at or after from, 0 when there is none
Find(s, c, from) ==
    IF \E i \in from..Len(s) : s[i] = c
    THEN CHOOSE i \in from..Len(s) :
             s[i] = c /\ \A j \in from..(i - 1) : s[j] # c
    ELSE 0

\* index of the last c, 0 when there is none
RFind(s, c) ==
    IF \E i \in 1..Len(s) : s[i] = c
    THEN CHOOSE i \in 1..Len(s) :
             s[i] = c /\ \A j \in (i + 1)..Len(s) : s[j] # c
    ELSE 0

\* Python: s.rsplit(c, 1)
RSplit1(s, c) ==
    LET k == RFind(s, c)
    IN  IF k = 0 THEN <<s>> ELSE <<SubSeq(s, 1, k - 1), SubSeq(s, k + 1, Len(s))>>

(***************************************************************************)
(* update_gallery_html.py: the pattern and its substitution.               *)
(***************************************************************************)
\* \s of a str pattern, the ASCII part (vertical tab has no TLA+ escape)
WhiteSpace == {" ", "\t", "\n", "\r", "\f"}

\* the alternatives of group 2
PatternExts == {<<"j","p","g">>, <<"J","P","G">>, <<"j","p","e","g">>, <<"J","P","E","G">>, <<"p","n","g">>, <<"P","N","G">>}

\* first index at or after p that holds no white space
SkipWs(s, p) ==
    CHOOSE i \in p..(Len(s) + 1) :
        /\ i = Len(s) + 1 \/ s[i] \notin WhiteSpace
        /\ \A j \in p..(i - 1) : s[j] \in WhiteSpace

NoMatch == [ok |-> FALSE]

\* re.match of the pattern at position p of s, with exts the alternatives of
\* group 2.  [^"]+ cannot cross a quote and \.(ext) is followed by one, so group 1
\* runs to the first quote after src="; [^>]*? stops at the first >.
MatchWith(s, p, exts) ==
    IF ~IsAt(s, p, <<"<","i","m","g">>) THEN NoMatch
    ELSE LET q == SkipWs(s, p + 4)
         IN  IF q = p + 4 \/ ~IsAt(s, q, <<"s","r","c","=","\"">>) THEN NoMatch
             ELSE LET k == Find(s, "\"", q + 5)
                  IN  IF k = 0 THEN NoMatch
                      ELSE LET g1 == SubSeq(s, q + 5, k - 1)
                               es == {e \in exts :
                                        /\ IsAt(g1, 1, <<"i","m","a","g","e","s","/">>)
                                        /\ EndsWith(g1, <<".">> \o e)
                                        /\ Len(g1) >= Len(<<"i","m","a","g","e","s","/">>) + 1 + 1 + Len(e)}
                               gt == Find(s, ">", k + 1)
                           IN  IF es = {} \/ gt = 0 THEN NoMatch
                               ELSE [ok |-> TRUE,
                                     start |-> p,
                                     end |-> gt,
                                     full_path |-> g1,
                                     ext |-> CHOOSE e \in es : TRUE,
                                     rest_of_tag |-> SubSeq(s, k + 1, gt - 1)]

MatchAt(s, p) == MatchWith(s, p, PatternExts)

\* the thumbnail path replace_img builds from group 1
thumb_path_of(full_path) ==
    LET path_parts == RSplit1(full_path, "/")
        thumb_filename == RSplit1(path_parts[2], ".")[1] \o <<".","j","p","g">>
    IN  path_parts[1] \o <<"/","t","h","u","m","b","n","a","i","l","s","/">> \o thumb_filename

\* replace_img rewriting src also when data-fullres is there already
ReplaceAlwaysSrc(s, m) ==
    LET group0 == SubSeq(s, m.start, m.end)
        rest == IF ~Contains(m.rest_of_tag, <<"l","o","a","d","i","n","g","=">>)
                THEN m.rest_of_tag \o <<" ","l","o","a","d","i","n","g","=","\"","l","a","z","y","\"">>
                ELSE m.rest_of_tag
    IN  IF Contains(m.full_path, <<"/","t","h","u","m","b","n","a","i","l","s","/">>) THEN group0
        ELSE IF ~Contains(m.rest_of_tag, <<"d","a","t","a","-","f","u","l","l","r","e","s","=">>)
             THEN <<"<","i","m","g"," ","s","r","c","=","\"">> \o thumb_path_of(m.full_path) \o <<"\""," ","d","a","t","a","-","f","u","l","l","r","e","s","=","\"">>
                      \o m.full_path \o <<"\"">> \o rest \o <<">">>
             ELSE <<"<","i","m","g"," ","s","r","c","=","\"">> \o thumb_path_of(m.full_path) \o <<"\"">> \o m.rest_of_tag \o <<">">>

\* replace_img(match); s[m.start..m.end] is match.group(0)
replace_img(s, m) ==
    LET group0 == SubSeq(s, m.start, m.end)
    IN  IF Contains(m.full_path, <<"/","t","h","u","m","b","n","a","i","l","s","/">>) THEN group0
        ELSE IF Len(RSplit1(m.full_path, "/")) = 2
             THEN IF ~Contains(m.rest_of_tag, <<"d","a","t","a","-","f","u","l","l","r","e","s","=">>)
                  THEN LET rest == IF ~Contains(m.rest_of_tag, <<"l","o","a","d","i","n","g","=">>)
                                   THEN m.rest_of_tag \o <<" ","l","o","a","d","i","n","g","=","\"","l","a","z","y","\"">>
                                   ELSE m.rest_of_tag
                       IN  <<"<","i","m","g"," ","s","r","c","=","\"">> \o thumb_path_of(m.full_path)
                               \o <<"\""," ","d","a","t","a","-","f","u","l","l","r","e","s","=","\"">> \o m.full_path \o <<"\"">>
                               \o rest \o <<">">>
                  ELSE group0
             ELSE group0

\* re.sub(pattern, replace_img, s): leftmost matches, not overlapping
RECURSIVE SubFrom(_, _)
SubFrom(s, p) ==
    IF p > Len(s) THEN <<>>
    ELSE LET m == MatchAt(s, p)
         IN  IF m.ok
             THEN replace_img(s, m) \o SubFrom(s, m.end + 1)
             ELSE <<s[p]>> \o SubFrom(s, p + 1)

ReSub(s) == SubFrom(s, 1)

\* the matches re.sub visits in s, in order
RECURSIVE TagsFrom(_, _, _)
TagsFrom(s, p, exts) ==
    IF p > Len(s) THEN <<>>
    ELSE LET m == MatchWith(s, p, exts)
         IN  IF m.ok
             THEN <<m>> \o TagsFrom(s, m.end + 1, exts)
             ELSE TagsFrom(s, p + 1, exts)

Tags(s) == TagsFrom(s, 1, PatternExts)

(***************************************************************************)
(* update_gallery_html.py: the files and main().                           *)
(***************************************************************************)
GalleryFiles ==
    <<"index.html", "lifeIsADream.html", "headshots.html", "adlad.html",
      "stupidBird.html", "multiself.html", "not-sightly.html">>

Missing == [exists |-> FALSE, content |-> <<>>]
File(text) == [exists |-> TRUE, content |-> text]

\* update_gallery_html(file_path) up to the comparison: the text it would write
new_content(text) == ReSub(text)

\* the file written whatever the comparison says
ChangedAlways(text) == TRUE

\* the condition of "if content != original_content"
content_changed(text) == new_content(text) # text

CurFile == gallery_files[idx]
InLoop == hpc = "loop" /\ idx <= Len(gallery_files)

\* Path(filename).exists() is false: the else branch of main()'s loop
FileNotFound ==
    /\ InLoop
    /\ ~fs[CurFile].exists
    /\ hlog' = Append(hlog, [ev |-> "not found", file |-> CurFile])
    /\ idx' = idx + 1
    /\ UNCHANGED <<gallery_files, fs, run, updated, hpc, rets, writes, fsStart>>
    /\ UNCHANGED gvars

\* open(file_path, 'r') or f.read() raises (permissions, a directory, bytes that
\* are not UTF-8): nothing catches it, main() is left by the exception
ReadRaises ==
    /\ InLoop
    /\ fs[CurFile].exists
    /\ hpc' = "raised"
    /\ UNCHANGED <<gallery_files, fs, run, idx, updated, hlog, rets, writes, fsStart>>
    /\ UNCHANGED gvars

\* update_gallery_html returns False: nothing is written
FileNoChange ==
    /\ InLoop
    /\ fs[CurFile].exists
    /\ ~content_changed(fs[CurFile].content)
    /\ rets' = [rets EXCEPT ![CurFile] = "False"]
    /\ hlog' = Append(hlog, [ev |-> "no changes needed", file |-> CurFile])
    /\ idx' = idx + 1
    /\ UNCHANGED <<gallery_files, fs, run, updated, hpc, writes, fsStart>>
    /\ UNCHANGED gvars

\* update_gallery_html writes the new text and returns True
FileUpdated ==
    /\ InLoop
    /\ fs[CurFile].exists
    /\ content_changed(fs[CurFile].content)
    /\ fs' = [fs EXCEPT ![CurFile] = File(new_content(fs[CurFile].content))]
    /\ writes' = [writes EXCEPT ![CurFile] = @ + 1]
    /\ rets' = [rets EXCEPT ![CurFile] = "True"]
    /\ hlog' = Append(hlog, [ev |-> "Updated", file |-> CurFile])
    /\ updated' = updated + 1
    /\ idx' = idx + 1
    /\ UNCHANGED <<gallery_files, run, hpc, fsStart>>
    /\ UNCHANGED gvars

\* open(file_path, 'w') or f.write() raises: the file is as it was (open failed)
\* or truncated (write failed); the exception leaves main()
WriteRaises ==
    /\ InLoop
    /\ fs[CurFile].exists
    /\ content_changed(fs[CurFile].content)
    /\ \E left \in {fs[CurFile].content, <<>>} :
           fs' = [fs EXCEPT ![CurFile] = File(left)]
    /\ writes' = [writes EXCEPT ![CurFile] = @ + 1]
    /\ hpc' = "raised"
    /\ UNCHANGED <<gallery_files, run, idx, updated, hlog, rets, fsStart>>
    /\ UNCHANGED gvars

\* the lines after the loop
PrintSummary ==
    /\ hpc = "loop"
    /\ idx > Len(gallery_files)
    /\ hlog' = Append(hlog, [ev |-> "summary", file |-> "", count |-> updated])
    /\ hpc' = "done"
    /\ UNCHANGED <<gallery_files, fs, run, idx, updated, rets, writes, fsStart>>
    /\ UNCHANGED gvars

NoRets == [f \in DOMAIN fs |-> "none"]
NoWrites == [f \in DOMAIN fs |-> 0]

\* the script is started again on the same files, after a run that completed (a
\* run that raised leaves files that some initial state holds as well)
RunAgain ==
    /\ hpc = "done"
    /\ run < MaxRuns
    /\ run' = run + 1
    /\ fsStart' = fs
    /\ idx' = 1
    /\ updated' = 0
    /\ hpc' = "loop"
    /\ hlog' = <<>>
    /\ rets' = NoRets
    /\ writes' = NoWrites
    /\ UNCHANGED <<gallery_files, fs>>
    /\ UNCHANGED gvars

NextHtml ==
    \/ FileNotFound
    \/ ReadRaises
    \/ FileNoChange
    \/ FileUpdated
    \/ WriteRaises
    \/ PrintSummary
    \/ RunAgain

(***************************************************************************)
(* The HTML documents the rewriter is run on.                              *)
(***************************************************************************)
TagText(ws, stem, ext, rest) ==
    <<"<","i","m","g">> \o ws \o <<"s","r","c","=","\"">> \o stem \o <<".">> \o ext \o <<"\"">> \o rest \o <<">">>

Stems == {<<"i","m","a","g","e","s","/","a","/","b">>, <<"i","m","a","g","e","s","/","b",".","c">>, <<"i","m","a","g","e","s","/","a","/","t","h","u","m","b","n","a","i","l","s","/","b">>}
Exts == {<<"j","p","g">>, <<"J","p","g">>}
Rests == {<<" ","a","l","t","=","\"","x","\"">>, <<" ","d","a","t","a","-","f","u","l","l","r","e","s","=","\"","i","m","a","g","e","s","/","a","/","b",".","p","n","g","\"">>, <<" ","l","o","a","d","i","n","g","=","\"","e","a","g","e","r","\"">>}

Pieces ==
    {TagText(<<" ">>, st, e, <<>>) : st \in Stems, e \in Exts}
    \cup {TagText(<<" ">>, <<"i","m","a","g","e","s","/","a","/","b">>, <<"p","n","g">>, r) : r \in Rests}
    \cup {TagText(<<"\n","\t">>, <<"i","m","a","g","e","s","/","b",".","c">>, <<"J","P","E","G">>, <<" ","a","l","t","=","\"","x","\"">>),
          <<"x">>,
          <<"<","i","m","g"," ","a","l","t","=","\"","x","\""," ","s","r","c","=","\"","i","m","a","g","e","s","/","b",".","j","p","g","\"",">">>,
          <<"<","i","m","g"," ","s","r","c","=","\"","i","m","a","g","e","s","/","b",".","p","n","g","\"">>,
          <<"<","i","m","g"," ","s","r","c","=","\"","i","m","a","g","e","s","/","a",">","b",".","p","n","g","\"">>,
          <<"<","i","m","g"," ","s","r","c","=","\"","i","m","a","g","e","s","/","b",".","g","i","f","\"",">">>,
          <<"<","i","m","g"," ","s","r","c","=","\"","p","i","c","s","/","b",".","j","p","g","\"",">">>,
          <<"<","i","m","g"," ","s","r","c","=","\"","i","m","a","g","e","s","/",".","j","p","g","\"",">">>}

RECURSIVE DocsOf(_)
DocsOf(n) ==
    IF n = 0 THEN {<<>>}
    ELSE LET shorter == DocsOf(n - 1)
         IN  shorter \cup {d \o p : d \in shorter, p \in Pieces}

Docs == DocsOf(MaxPieces)

\* the files of a run over several configured files
FileDocs ==
    {<<"<","p",">","x","<","/","p",">">>,
     <<"<","i","m","g"," ","s","r","c","=","\"","i","m","a","g","e","s","/","a","/","b",".","j","p","g","\"",">">>,
     <<"<","i","m","g"," ","s","r","c","=","\"","i","m","a","g","e","s","/","b",".","p","n","g","\""," ","a","l","t","=","\"","x","\"",">","<","i","m","g"," ","s","r","c","=","\"","i","m","a","g","e","s","/","c",".","g","i","f","\"",">">>,
     <<"<","i","m","g"," ","s","r","c","=","\"","i","m","a","g","e","s","/","a","/","t","h","u","m","b","n","a","i","l","s","/","b",".","j","p","g","\""," ","d","a","t","a","-","f","u","l","l","r","e","s","=","\"","i","m","a","g","e","s","/","a","/","b",".","j","p","g","\""," ","l","o","a","d","i","n","g","=","\"","l","a","z","y","\"",">">>}

GenIdle ==
    /\ entry = "none"
    /\ IMAGE_DIRS = <<>>
    /\ dirs = <<>>
    /\ thumbs = <<>>
    /\ didx = 1
    /\ total_dirs = 0
    /\ todo = {}
    /\ processed = 0
    /\ gpc = "idle"
    /\ glog = <<>>
    /\ attempts = {}

InitHtmlOn(files, texts) ==
    /\ gallery_files = files
    /\ fs \in [{files[i] : i \in 1..Len(files)} -> {Missing} \cup {File(t) : t \in texts}]
    /\ run = 1
    /\ idx = 1
    /\ updated = 0
    /\ hpc = "loop"
    /\ hlog = <<>>
    /\ rets = NoRets
    /\ writes = NoWrites
    /\ fsStart = fs
    /\ GenIdle

\* one configured file, any document
InitRewrite == InitHtmlOn(SubSeq(GalleryFiles, 1, 1), Docs)
SpecRewrite == InitRewrite /\ [][NextHtml]_vars

\* several configured files
InitHtmlMain == InitHtmlOn(SubSeq(GalleryFiles, 1, NumFiles), FileDocs)
SpecHtmlMain == InitHtmlMain /\ [][NextHtml]_vars

(***************************************************************************)
(* create_thumbnails.py: names, paths and images.                          *)
(***************************************************************************)
ImageDirs ==
    <<<<"i","m","a","g","e","s","/","N","o","t"," ","S","i","g","h","t","l","y">>, <<"i","m","a","g","e","s","/","l","a"," ","v","i","d","a","/","b","e","n"," ","r","o","s","e"," ","l","a"," ","v","i","d","a">>, <<"i","m","a","g","e","s","/","a","d","l","a","d">>,
      <<"i","m","a","g","e","s","/","H","e","a","d","s","h","o","t","s">>, <<"i","m","a","g","e","s","/","s","f","b">>, <<"i","m","a","g","e","s","/","m","u","l","t","i","s","e","l","f">>, <<"i","m","a","g","e","s","/","v","i","d","e","o","s">>,
      <<"i","m","a","g","e","s","/","l","a"," ","v","i","d","a">>>>

\* extensions of process_directory
extensions == {<<".","j","p","g">>, <<".","j","p","e","g">>, <<".","p","n","g">>, <<".","J","P","G">>, <<".","J","P","E","G">>, <<".","P","N","G">>}

\* pathlib: PurePath.suffix, from the last dot unless it starts or ends the name
suffix(name) ==
    LET k == RFind(name, ".")
    IN  IF 1 < k /\ k < Len(name) THEN SubSeq(name, k, Len(name)) ELSE <<>>

\* pathlib: PurePath.stem
stem(name) ==
    LET k == RFind(name, ".")
    IN  IF 1 < k /\ k < Len(name) THEN SubSeq(name, 1, k - 1) ELSE name

\* the condition of the loop: img_path.suffix in extensions and img_path.is_file()
Selected(name, file) == suffix(name) \in extensions /\ file.kind = "file"

\* the thumbnail named after the whole file name
ThumbPathKeepsExt(dir, name) == dir \o <<"/">> \o <<"t","h","u","m","b","n","a","i","l","s">> \o <<"/">> \o name \o <<".","j","p","g">>

\* thumb_path = thumbnails_dir / (img_path.stem + '.jpg')
thumb_path(dir, name) == dir \o <<"/">> \o <<"t","h","u","m","b","n","a","i","l","s">> \o <<"/">> \o stem(name) \o <<".","j","p","g">>

MAX_SIZE == 800

White == <<255, 255, 255>>

\* Pillow's blend of one channel of the pasted image over the background under an
\* 8 bit mask: MULDIV255(a, b) = ((a * b + 128) >> 8 + a * b + 128) >> 8
MulDiv255(a, b) ==
    LET t == a * b + 128
    IN  ((t \div 256) + t) \div 256

Blend(mask, bg, fg) == MulDiv255(bg, 255 - mask) + MulDiv255(fg, mask)

\* background.paste(img, mask=img.split()[3]) on a white RGB background
PasteOnWhite(px) ==
    [i \in 1..Len(px) |->
        <<Blend(px[i][4], 255, px[i][1]),
          Blend(px[i][4], 255, px[i][2]),
          Blend(px[i][4], 255, px[i][3])>>]

\* img.convert('RGB') of the modes of the model: grey is copied to the three
\* channels, an alpha band is dropped
ConvertRGB(mode, px) ==
    [i \in 1..Len(px) |->
        IF mode \in {"L", "LA"} THEN <<px[i][1], px[i][1], px[i][1]>>
        ELSE <<px[i][1], px[i][2], px[i][3]>>]

\* Pillow's Image.thumbnail size: unchanged when the image fits; else one side
\* becomes max_size and the other is round_aspect of the exact value: its floor
\* or its ceiling, the first that minimises the key, and at least 1
Abs(x) == IF x < 0 THEN -x ELSE x

\* new width when the height becomes y: key(n) = |w/h - n/y|
RoundAspectX(y, w, h) ==
    LET lo == (y * w) \div h
        hi == IF lo * h = y * w THEN lo ELSE lo + 1
        n == IF Abs(w * y - lo * h) <= Abs(w * y - hi * h) THEN lo ELSE hi
    IN  IF n < 1 THEN 1 ELSE n

\* new height when the width becomes x: key(n) = 0 if n = 0, else |w/h - x/n|
RoundAspectY(x, w, h) ==
    LET lo == (x * h) \div w
        hi == IF lo * w = x * h THEN lo ELSE lo + 1
        n == IF lo = 0 \/ Abs(w * lo - x * h) * hi <= Abs(w * hi - x * h) * lo
             THEN lo ELSE hi
    IN  IF n < 1 THEN 1 ELSE n

ThumbSize(size, max_size) ==
    LET w == size[1]
        h == size[2]
    IN  IF max_size >= w /\ max_size >= h THEN size
        ELSE IF h >= w THEN <<RoundAspectX(max_size, w, h), max_size>>
             ELSE <<max_size, RoundAspectY(max_size, w, h)>>

\* the modes that carry an alpha band
AlphaModes == {"RGBA", "LA"}
AlphaOf(img, i) == img.px[i][Len(img.px[i])]

\* the colour mode made RGB: an RGBA image is pasted on white under its alpha
\* band, any other mode but RGB is converted
Normalise(img) ==
    IF img.mode = "RGBA" THEN PasteOnWhite(img.px)
    ELSE IF img.mode # "RGB" THEN ConvertRGB(img.mode, img.px)
    ELSE img.px

\* the image create_thumbnail saves: RGB, at most max_size on each side.  px holds
\* one sample per region of the picture; resampling keeps the regions.
Thumbnail(img) ==
    [mode |-> "RGB", size |-> ThumbSize(img.size, MAX_SIZE), px |-> Normalise(img)]

Corrupt == [mode |-> "corrupt", size |-> <<0, 0>>, px |-> <<>>]
Garbage == [mode |-> "partial", size |-> <<0, 0>>, px |-> <<>>]

Images ==
    {[mode |-> "RGB", size |-> <<1600, 1200>>, px |-> <<<<10, 20, 30>>, <<0, 0, 0>>>>],
     [mode |-> "RGBA", size |-> <<900, 1350>>, px |-> <<<<10, 20, 30, 128>>, <<0, 0, 0, 0>>>>],
     [mode |-> "LA", size |-> <<2, 1>>, px |-> <<<<0, 255>>, <<0, 0>>>>],
     [mode |-> "L", size |-> <<2, 1>>, px |-> <<<<7>>, <<200>>>>]}

(***************************************************************************)
(* create_thumbnails.py: process_directory() and main().                   *)
(***************************************************************************)
NoDir == [exists |-> FALSE, files |-> <<>>]
Dir(files) == [exists |-> TRUE, files |-> files]
Thumbnails == [kind |-> "dir", img |-> Corrupt]

CurDir == IMAGE_DIRS[didx]

\* the entries iterdir() yields after mkdir: the files and the thumbnails folder
Entries(d) == DOMAIN dirs[d].files \cup {<<"t","h","u","m","b","n","a","i","l","s">>}
EntryOf(d, n) == IF n \in DOMAIN dirs[d].files THEN dirs[d].files[n] ELSE Thumbnails

Line(ev, dir, name, n) == [ev |-> ev, dir |-> dir, name |-> name, n |-> n]

\* main(): full_path.exists() is false, the directory is passed over
MainSkipMissing ==
    /\ gpc = "main"
    /\ didx <= Len(IMAGE_DIRS)
    /\ ~dirs[CurDir].exists
    /\ didx' = didx + 1
    /\ UNCHANGED <<entry, IMAGE_DIRS, dirs, thumbs, total_dirs, todo, processed, gpc, glog, attempts>>
    /\ UNCHANGED hvars

\* main(): full_path.exists(), process_directory(full_path) is called
MainCallDir ==
    /\ gpc = "main"
    /\ didx <= Len(IMAGE_DIRS)
    /\ dirs[CurDir].exists
    /\ gpc' = "call"
    /\ UNCHANGED <<entry, IMAGE_DIRS, dirs, thumbs, didx, total_dirs, todo, processed, glog, attempts>>
    /\ UNCHANGED hvars

\* process_directory(): the directory does not exist, warn and return
DirNotFound ==
    /\ gpc = "call"
    /\ ~dirs[CurDir].exists
    /\ glog' = Append(glog, Line("Directory not found", CurDir, <<>>, 0))
    /\ gpc' = "returned"
    /\ UNCHANGED <<entry, IMAGE_DIRS, dirs, thumbs, didx, total_dirs, todo, processed, attempts>>
    /\ UNCHANGED hvars

\* process_directory(): mkdir thumbnails, print the header, start the loop
DirEnter ==
    /\ gpc = "call"
    /\ dirs[CurDir].exists
    /\ glog' = Append(glog, Line("Processing", CurDir, <<>>, 0))
    /\ todo' = Entries(CurDir)
    /\ processed' = 0
    /\ gpc' = "dir"
    /\ UNCHANGED <<entry, IMAGE_DIRS, dirs, thumbs, didx, total_dirs, attempts>>
    /\ UNCHANGED hvars

\* the loop passes over an entry that is no image file
SkipEntry ==
    /\ gpc = "dir"
    /\ \E n \in todo :
        /\ ~Selected(n, EntryOf(CurDir, n))
        /\ todo' = todo \ {n}
    /\ UNCHANGED <<entry, IMAGE_DIRS, dirs, thumbs, didx, total_dirs, processed, gpc, glog, attempts>>
    /\ UNCHANGED hvars

\* the exception of one file leaving the loop
AfterErrorAborts == "aborted"

\* where the loop stands after create_thumbnail caught an exception and returned
\* False: at its next iteration
AfterError == "dir"

\* create_thumbnail() returns True: the thumbnail is written, the file counted
ThumbOk ==
    /\ gpc = "dir"
    /\ \E n \in todo :
        /\ Selected(n, EntryOf(CurDir, n))
        /\ EntryOf(CurDir, n).img # Corrupt
        /\ thumbs' = [thumbs EXCEPT ![CurDir] =
                         [p \in DOMAIN @ \cup {thumb_path(CurDir, n)} |->
                             IF p = thumb_path(CurDir, n)
                             THEN [img |-> Thumbnail(EntryOf(CurDir, n).img), from |-> n]
                             ELSE @[p]]]
        /\ glog' = Append(glog, Line("ok", CurDir, n, 0))
        /\ attempts' = attempts \cup {<<CurDir, n>>}
        /\ todo' = todo \ {n}
    /\ processed' = processed + 1
    /\ UNCHANGED <<entry, IMAGE_DIRS, dirs, didx, total_dirs, gpc>>
    /\ UNCHANGED hvars

\* create_thumbnail() catches an exception (Image.open on a corrupt file, or an
\* I/O failure while saving, which may leave a partial file), prints the error
\* with the path and returns False
ThumbFails ==
    /\ gpc = "dir"
    /\ \E n \in todo :
        /\ Selected(n, EntryOf(CurDir, n))
        /\ \/ UNCHANGED thumbs
           \/ /\ EntryOf(CurDir, n).img # Corrupt
              /\ thumbs' = [thumbs EXCEPT ![CurDir] =
                               [p \in DOMAIN @ \cup {thumb_path(CurDir, n)} |->
                                   IF p = thumb_path(CurDir, n)
                                   THEN [img |-> Garbage, from |-> n]
                                   ELSE @[p]]]
        /\ glog' = Append(glog, Line("Error processing", CurDir, n, 0))
        /\ attempts' = attempts \cup {<<CurDir, n>>}
        /\ todo' = todo \ {n}
    /\ gpc' = AfterError
    /\ UNCHANGED <<entry, IMAGE_DIRS, dirs, didx, total_dirs, processed>>
    /\ UNCHANGED hvars

\* process_directory(): the loop is over, print the count and return
DirDone ==
    /\ gpc = "dir"
    /\ todo = {}
    /\ glog' = Append(glog, Line("Processed", CurDir, <<>>, processed))
    /\ gpc' = "returned"
    /\ UNCHANGED <<entry, IMAGE_DIRS, dirs, thumbs, didx, total_dirs, todo, processed, attempts>>
    /\ UNCHANGED hvars

\* back in main(): total_dirs += 1, next directory
MainCounts ==
    /\ gpc = "returned"
    /\ entry = "main"
    /\ total_dirs' = total_dirs + 1
    /\ didx' = didx + 1
    /\ gpc' = "main"
    /\ UNCHANGED <<entry, IMAGE_DIRS, dirs, thumbs, todo, processed, glog, attempts>>
    /\ UNCHANGED hvars

\* main(): the lines after the loop
MainDone ==
    /\ gpc = "main"
    /\ didx > Len(IMAGE_DIRS)
    /\ glog' = Append(glog, Line("Complete", <<>>, <<>>, total_dirs))
    /\ gpc' = "done"
    /\ UNCHANGED <<entry, IMAGE_DIRS, dirs, thumbs, didx, total_dirs, todo, processed, attempts>>
    /\ UNCHANGED hvars

NextGen ==
    \/ MainSkipMissing
    \/ MainCallDir
    \/ DirNotFound
    \/ DirEnter
    \/ SkipEntry
    \/ ThumbOk
    \/ ThumbFails
    \/ DirDone
    \/ MainCounts
    \/ MainDone

(***************************************************************************)
(* The directories the generator is run on.                                *)
(***************************************************************************)
Names == {<<"a",".","j","p","g">>, <<"a",".","p","n","g">>, <<"c",".","J","p","g">>, <<"a",".","b",".","J","P","E","G">>, <<"d",">","e",".","p","n","g">>, <<".","j","p","g">>}
FilesOf(imgs) ==
    [kind : {"file"}, img : imgs \cup {Corrupt}] \cup {[kind |-> "dir", img |-> Corrupt]}

\* the listings with at most n of the names
Listings(names, imgs, n) ==
    UNION {[ns -> FilesOf(imgs)] : ns \in {x \in SUBSET names : Cardinality(x) <= n}}

HtmlIdle ==
    /\ gallery_files = <<>>
    /\ fs = <<>>
    /\ run = 1
    /\ idx = 1
    /\ updated = 0
    /\ hpc = "idle"
    /\ hlog = <<>>
    /\ rets = <<>>
    /\ writes = <<>>
    /\ fsStart = <<>>

InitGenOn(configured, listings) ==
    /\ IMAGE_DIRS = configured
    /\ dirs \in [{configured[i] : i \in 1..Len(configured)} ->
                    {NoDir} \cup {Dir(l) : l \in listings}]
    /\ thumbs = [d \in DOMAIN dirs |-> <<>>]
    /\ entry \in {"main", "process_directory"}
    /\ gpc = IF entry = "main" THEN "main" ELSE "call"
    /\ didx = 1
    /\ total_dirs = 0
    /\ todo = {}
    /\ processed = 0
    /\ glog = <<>>
    /\ attempts = {}
    /\ HtmlIdle

\* one directory, any listing
InitThumbs == InitGenOn(SubSeq(ImageDirs, 1, 1), Listings(Names, Images, MaxEntries))
SpecThumbs == InitThumbs /\ [][NextGen]_vars

\* several configured directories
SmallNames == {<<"a",".","j","p","g">>, <<"b",".","p","n","g">>}
SmallImages == {[mode |-> "RGB", size |-> <<2, 1>>, px |-> <<<<10, 20, 30>>, <<255, 255, 255>>>>]}
InitGenMain ==
    InitGenOn(SubSeq(ImageDirs, 1, NumDirs),
              Listings(SmallNames, SmallImages, Cardinality(SmallNames)))
SpecGenMain == InitGenMain /\ [][NextGen]_vars

(***************************************************************************)
(* Properties of the HTML rewriter.                                        *)
(***************************************************************************)
Called(f) == rets[f] # "none"
Before(f) == fsStart[f].content
After(f) == fs[f].content
TextOf(s, m) == SubSeq(s, m.start, m.end)
HasThumbnails(m) == Contains(m.full_path, <<"/","t","h","u","m","b","n","a","i","l","s","/">>)
HasFullres(m) == Contains(m.rest_of_tag, <<"d","a","t","a","-","f","u","l","l","r","e","s","=">>)
HasLoading(m) == Contains(m.rest_of_tag, <<"l","o","a","d","i","n","g","=">>)

\* <dir>/thumbnails/<stem>.jpg of a matched path <dir>/<stem>.<ext>
LastSlash(path) ==
    CHOOSE k \in 1..Len(path) :
        path[k] = "/" /\ \A j \in (k + 1)..Len(path) : path[j] # "/"
ExpectedSrc(m) ==
    SubSeq(m.full_path, 1, LastSlash(m.full_path)) \o <<"t","h","u","m","b","n","a","i","l","s","/">>
        \o SubSeq(m.full_path, LastSlash(m.full_path) + 1,
                  Len(m.full_path) - Len(m.ext) - 1)
        \o <<".","j","p","g">>

\* the tag the claim C2 describes for a matched tag
ClaimedTag(s, m) ==
    IF HasThumbnails(m) THEN TextOf(s, m)
    ELSE <<"<","i","m","g"," ","s","r","c","=","\"">> \o ExpectedSrc(m) \o <<"\"">>
             \o (IF HasFullres(m) THEN <<>>
                 ELSE <<" ","d","a","t","a","-","f","u","l","l","r","e","s","=","\"">> \o m.full_path \o <<"\"">>)
             \o m.rest_of_tag
             \o (IF HasLoading(m) THEN <<>> ELSE <<" ","l","o","a","d","i","n","g","=","\"","l","a","z","y","\"">>)
             \o <<">">>

\* the same, with a tag that holds data-fullres= left as it is
AmendedTag(s, m) ==
    IF HasThumbnails(m) \/ HasFullres(m) THEN TextOf(s, m)
    ELSE <<"<","i","m","g"," ","s","r","c","=","\"">> \o ExpectedSrc(m) \o <<"\""," ","d","a","t","a","-","f","u","l","l","r","e","s","=","\"">> \o m.full_path \o <<"\"">>
             \o m.rest_of_tag
             \o (IF HasLoading(m) THEN <<>> ELSE <<" ","l","o","a","d","i","n","g","=","\"","l","a","z","y","\"">>)
             \o <<">">>

\* s from position p on, every matched tag replaced by the tag described and
\* the text between the tags kept
RECURSIVE Rebuilt(_, _, _)
Rebuilt(s, p, asClaimed) ==
    IF p > Len(s) THEN <<>>
    ELSE LET m == MatchAt(s, p)
         IN  IF m.ok
             THEN (IF asClaimed THEN ClaimedTag(s, m) ELSE AmendedTag(s, m))
                      \o Rebuilt(s, m.end + 1, asClaimed)
             ELSE <<s[p]>> \o Rebuilt(s, p + 1, asClaimed)

\* C1: a second run of the rewriter over files a completed run has processed
\* writes nothing, reports no file as updated and leaves every file as it was.
C1_SecondRunChangesNothing ==
    run >= 2 =>
        /\ updated = 0
        /\ \A f \in DOMAIN fs :
              writes[f] = 0 /\ rets[f] # "True" /\ fs[f] = fsStart[f]

\* C2 as stated: every matched tag whose path holds no /thumbnails/ gets the
\* thumbnail path as its src, whatever its other attributes; data-fullres and
\* loading are added unless the tag holds them.
C2_EveryOtherTagRewritten ==
    \A f \in DOMAIN fs :
        Called(f) => After(f) = Rebuilt(Before(f), 1, TRUE)

\* C2 amended: a matched tag whose path holds /thumbnails/ or whose other
\* attributes hold data-fullres= is left as it is, src included; every other
\* matched tag gets the src <dir>/thumbnails/<stem>.jpg, a data-fullres attribute
\* with the original path in front of its other attributes, which are kept, and
\* loading="lazy" after them unless they hold loading= already; the text
\* outside the matched tags is kept.
C2_RewrittenUnlessThumbnailsOrFullres ==
    \A f \in DOMAIN fs :
        Called(f) => After(f) = Rebuilt(Before(f), 1, FALSE)

\* one file held a tag with data-fullres and a tag with loading=, and was updated
C2_Witness ==
    \E f \in DOMAIN fs :
        /\ rets[f] = "True"
        /\ \E i, j \in 1..Len(Tags(Before(f))) :
              /\ ~HasThumbnails(Tags(Before(f))[i]) /\ HasFullres(Tags(Before(f))[i])
              /\ ~HasThumbnails(Tags(Before(f))[j]) /\ HasLoading(Tags(Before(f))[j])
              /\ ~HasFullres(Tags(Before(f))[j])

\* C3: a run of the rewriter ends past the last configured file with the summary
\* printed, whatever failed on the way.
C3_RunAlwaysReachesSummary ==
    hpc \in {"done", "raised"} =>
        /\ idx > Len(gallery_files)
        /\ hlog # <<>>
        /\ hlog[Len(hlog)].ev = "summary"

\* C7: a file is opened for writing at most once in a run, and only when the
\* substitution changed its text; a call that returned False left the file as it
\* was, a call that returned True wrote the substituted text, and main counts
\* exactly the files whose call returned True.
C7_WrittenOnlyIfChanged ==
    /\ \A f \in DOMAIN fs :
          /\ writes[f] <= 1
          /\ writes[f] = 1 => ReSub(Before(f)) # Before(f)
          /\ writes[f] = 0 => fs[f] = fsStart[f]
          /\ rets[f] = "False" =>
                writes[f] = 0 /\ ReSub(Before(f)) = Before(f)
          /\ rets[f] = "True" =>
                /\ writes[f] = 1
                /\ After(f) = ReSub(Before(f))
                /\ After(f) # Before(f)
    /\ updated = Cardinality({f \in DOMAIN fs : rets[f] = "True"})

\* a run that updated one file and found another in no need of changes
C7_Witness ==
    /\ hpc = "done"
    /\ updated = 1
    /\ \E f, g \in DOMAIN fs :
          /\ rets[f] = "True" /\ writes[f] = 1
          /\ rets[g] = "False" /\ writes[g] = 0 /\ Before(g) # <<>>

\* jpg, jpeg and png in any mix of upper and lower case
AnyCaseExts ==
    {<<a, b, c>> : a \in {"j", "J"}, b \in {"p", "P"}, c \in {"g", "G"}}
    \cup {<<a, b, c, d>> : a \in {"j", "J"}, b \in {"p", "P"}, c \in {"e", "E"},
                           d \in {"g", "G"}}
    \cup {<<a, b, c>> : a \in {"p", "P"}, b \in {"n", "N"}, c \in {"g", "G"}}

\* C9: every tag whose extension is jpg, jpeg or png in any case, and which no
\* guard of the substitution excludes, is matched by the pattern and the file
\* is rewritten.
C9_AnyCaseExtensionRewritten ==
    \A f \in DOMAIN fs :
        Called(f) =>
            LET t == TagsFrom(Before(f), 1, AnyCaseExts)
            IN  \A i \in 1..Len(t) :
                    (~HasThumbnails(t[i]) /\ ~HasFullres(t[i])) =>
                        /\ MatchAt(Before(f), t[i].start).ok
                        /\ rets[f] = "True"

(***************************************************************************)
(* Properties of the thumbnail generator.                                  *)
(***************************************************************************)
LinesOf(ev, d) == {i \in 1..Len(glog) : glog[i].ev = ev /\ glog[i].dir = d}
LinesAbout(ev, d, n) == {i \in LinesOf(ev, d) : glog[i].name = n}
SelectedIn(d) == {n \in DOMAIN dirs[d].files : Selected(n, dirs[d].files[n])}
InDirectory == gpc \in {"dir", "returned"} /\ dirs[CurDir].exists

\* C4: an image file that fails is logged with its path and is not counted; the
\* loop goes on after it; when process_directory returns, every image file of the
\* directory has been tried, and when main ends, every image file of every
\* existing configured directory.
C4_FileFailureIsLocal ==
    /\ \A i \in 1..Len(glog) :
          glog[i].ev = "Error processing" => (i < Len(glog) \/ gpc = "dir")
    /\ \A a \in attempts :
          /\ Cardinality(LinesAbout("ok", a[1], a[2])
                             \cup LinesAbout("Error processing", a[1], a[2])) = 1
          /\ dirs[a[1]].files[a[2]].img = Corrupt =>
                LinesAbout("Error processing", a[1], a[2]) # {}
    /\ InDirectory => processed = Cardinality(LinesOf("ok", CurDir))
    /\ (InDirectory /\ gpc = "returned") =>
          /\ \A n \in SelectedIn(CurDir) : <<CurDir, n>> \in attempts
          /\ glog[Len(glog)] = Line("Processed", CurDir, <<>>,
                                    Cardinality(LinesOf("ok", CurDir)))
    /\ (gpc = "done" /\ entry = "main") =>
          \A d \in DOMAIN dirs :
              dirs[d].exists => \A n \in SelectedIn(d) : <<d, n>> \in attempts

\* main has ended; a file failed, a later file of the same directory was written
\* and a later directory was processed
C4_Witness ==
    /\ gpc = "done"
    /\ entry = "main"
    /\ \E i, j, k \in 1..Len(glog) :
          /\ i < j /\ j < k
          /\ glog[i].ev = "Error processing"
          /\ glog[j].ev = "ok" /\ glog[j].dir = glog[i].dir
          /\ glog[k].ev = "ok" /\ glog[k].dir # glog[i].dir

\* C5: main warns about every configured directory that does not exist, and
\* does not count it.
C5_MissingDirectoryWarned ==
    entry = "main" =>
        /\ \A k \in 1..Len(IMAGE_DIRS) :
              (k < didx /\ ~dirs[IMAGE_DIRS[k]].exists) =>
                  LinesOf("Directory not found", IMAGE_DIRS[k]) # {}
        /\ total_dirs <= Cardinality({d \in DOMAIN dirs : dirs[d].exists})

\* C6: the thumbnail of an image whose mode carries alpha is RGB, and white
\* wherever the image was fully transparent.
C6_TransparentBecomesWhite ==
    \A d \in DOMAIN thumbs :
        \A p \in DOMAIN thumbs[d] :
            LET t == thumbs[d][p].img
                src == dirs[d].files[thumbs[d][p].from].img
            IN  (t # Garbage /\ src.mode \in AlphaModes) =>
                    /\ t.mode = "RGB"
                    /\ \A i \in 1..Len(src.px) :
                          AlphaOf(src, i) = 0 => t.px[i] = White

\* C8: process_directory returns from a directory in which no file failed with
\* as many thumbnails in the thumbnails folder as images it processed.
C8_OneThumbnailPerSource ==
    (InDirectory /\ gpc = "returned" /\ LinesOf("Error processing", CurDir) = {}) =>
        Cardinality(DOMAIN thumbs[CurDir]) = processed

\* C10: the path a thumbnail was written to is the src the rewriter substitutes
\* in the tag whose src is <directory>/<file name>, and the data-fullres it adds
\* is that src.
C10_ScriptsAgreeOnPaths ==
    \A d \in DOMAIN thumbs :
        \A p \in DOMAIN thumbs[d] :
            LET src == d \o <<"/">> \o thumbs[d][p].from
            IN  ReSub(<<"<","i","m","g"," ","s","r","c","=","\"">> \o src \o <<"\"",">">>)
                    = <<"<","i","m","g"," ","s","r","c","=","\"">> \o p \o <<"\""," ","d","a","t","a","-","f","u","l","l","r","e","s","=","\"">> \o src
                          \o <<"\""," ","l","o","a","d","i","n","g","=","\"","l","a","z","y","\"",">">>

\* a thumbnail was written for a name with two dots and an upper-case extension
C10_Witness ==
    \E d \in DOMAIN thumbs :
        \E p \in DOMAIN thumbs[d] :
            thumbs[d][p].from = <<"a",".","b",".","J","P","E","G">> /\ thumbs[d][p].img # Garbage
====
